---- MODULE Spec2Model ----
(***************************************************************************)
(* helmet (src/index.ts): construction of the middleware stack from an     *)
(* options object, and the per-request continuation-passing executor.      *)
(***************************************************************************)
EXTENDS Integers, Sequences, FiniteSets, TLC

\* ---------------------------------------------------------------- bounds
\* Largest number of own properties of an options object that is enumerated.
MaxKeys == 2
\* Number of requests sent through one constructed pipeline.
NumReqs == 2
\* Largest number of continuation calls of one request that are a handler's
\* second or later call.
MaxExtra == 1
\* Largest number of direct calls of the functions helmet.X.
MaxStatic == 1

\* ------------------------------------------------------- program constants
\* src/index.ts:61-76, the registration order.
middlewares ==
  << "contentSecurityPolicy", "dnsPrefetchControl", "expectCt", "featurePolicy",
     "frameguard", "hidePoweredBy", "hsts", "ieNoOpen", "noSniff",
     "permittedCrossDomainPolicies", "referrerPolicy", "xssFilter", "hpkp",
     "noCache" >>

\* src/index.ts:35-43.
DEFAULT_MIDDLEWARE ==
  << "dnsPrefetchControl", "frameguard", "hidePoweredBy", "hsts", "ieNoOpen",
     "noSniff", "xssFilter" >>

Range(s) == {s[i] : i \in 1..Len(s)}

MiddlewareName == Range(middlewares)

\* ------------------------------------------------------------ JS values
\* Option values are written as their JS source text.
Values == {"undefined", "null", "false", "true", "{a:1}", "{name:'IncomingMessage'}"}

\* Keys an options object may carry besides the 14 known ones; an own key
\* constructor is what options.constructor reads.
ExtraKeys == {"unknownKey", "constructor"}

Keys == MiddlewareName \cup ExtraKeys

\* Array.prototype.indexOf: 0-based position of the first match, -1 if none.
indexOf(arr, x) ==
  IF \E i \in 1..Len(arr) : arr[i] = x
    THEN (CHOOSE i \in 1..Len(arr) :
            arr[i] = x /\ \A j \in 1..(i - 1) : arr[j] # x) - 1
    ELSE -1

\* Property read options[key] on an object whose own properties are the
\* <<key, value>> pairs of props, in insertion order; a missing property
\* reads as undefined.
RECURSIVE Get(_, _)
Get(props, key) ==
  IF props = << >> THEN "undefined"
  ELSE IF Head(props)[1] = key THEN Head(props)[2]
  ELSE Get(Tail(props), key)

\* ---------------------------------------------------------- construction
\* A factory call whose throw is caught and dropped: the handler is left out
\* and the reduce goes on.
middlewareCallSwallow(acc, middlewareName, middlewareOptions, raising) ==
  IF middlewareName \in raising
    THEN [acc EXCEPT !.calls = Append(@, <<middlewareName, middlewareOptions, "threw">>)]
    ELSE [acc EXCEPT !.calls = Append(@, <<middlewareName, middlewareOptions, "returned">>),
                     !.result = Append(@, [name |-> middlewareName,
                                           options |-> middlewareOptions])]

\* A factory call middleware(middlewareOptions): the factories are opaque;
\* the handler they return is identified by its name and the options it got.
\* raising is the set of names whose factory throws on this call.
middlewareCall(acc, middlewareName, middlewareOptions, raising) ==
  IF middlewareName \in raising
    THEN [acc EXCEPT !.calls = Append(@, <<middlewareName, middlewareOptions, "threw">>),
                     !.thrown = middlewareName]
    ELSE [acc EXCEPT !.calls = Append(@, <<middlewareName, middlewareOptions, "returned">>),
                     !.result = Append(@, [name |-> middlewareName,
                                           options |-> middlewareOptions])]

\* indexOf compared with > 0: the first default name is missed.
isDefaultFromSecond(middlewareName) == indexOf(DEFAULT_MIDDLEWARE, middlewareName) > 0

isDefault(middlewareName) == indexOf(DEFAULT_MIDDLEWARE, middlewareName) # -1

\* The callback testing !middlewareOptions in place of === false: false reads
\* as omitted, so a default handler cannot be switched off.
reduceCallbackFalsy(acc, middlewareName, props, raising) ==
  LET given == Get(props, middlewareName) IN
  LET middlewareOptions == IF given = "true" THEN "{}" ELSE given IN
  IF middlewareOptions \notin {"null", "undefined", "false"}
    THEN middlewareCall(acc, middlewareName, middlewareOptions, raising)
  ELSE IF isDefault(middlewareName)
    THEN middlewareCall(acc, middlewareName, "{}", raising)
  ELSE acc

\* The callback calling every included factory with {}.
reduceCallbackEmptied(acc, middlewareName, props, raising) ==
  LET given == Get(props, middlewareName) IN
  IF given = "false" THEN acc
  ELSE IF given \notin {"null", "undefined"} \/ isDefault(middlewareName)
    THEN middlewareCall(acc, middlewareName, "{}", raising)
  ELSE acc

\* The callback calling the factory before it looks at the value, and
\* dropping the handler of a name that is not included.
reduceCallbackEager(acc, middlewareName, props, raising) ==
  LET given == Get(props, middlewareName)
      middlewareOptions == IF given \in {"true", "false", "null", "undefined"}
                             THEN "{}" ELSE given
      called == middlewareCall(acc, middlewareName, middlewareOptions, raising) IN
  IF given = "false" \/ (given \in {"null", "undefined"} /\ ~isDefault(middlewareName))
    THEN [called EXCEPT !.result = acc.result]
    ELSE called

\* The callback testing the value for truthiness instead of != null: 0 and
\* the empty string count as omitted.
reduceCallbackTruthy(acc, middlewareName, props, raising) ==
  LET given == Get(props, middlewareName) IN
  IF given = "false" THEN acc
  ELSE LET middlewareOptions == IF given = "true" THEN "{}" ELSE given IN
       IF middlewareOptions \notin {"null", "undefined", "0", "''"}
         THEN middlewareCall(acc, middlewareName, middlewareOptions, raising)
       ELSE IF isDefault(middlewareName)
         THEN middlewareCall(acc, middlewareName, "{}", raising)
       ELSE acc

\* The reduce callback, src/index.ts:85-105.
reduceCallback(acc, middlewareName, props, raising) ==
  LET given == Get(props, middlewareName) IN
  IF given = "false" THEN acc
  ELSE LET middlewareOptions == IF given = "true" THEN "{}" ELSE given IN
       IF middlewareOptions \notin {"null", "undefined"}
         THEN middlewareCall(acc, middlewareName, middlewareOptions, raising)
       ELSE IF isDefault(middlewareName)
         THEN middlewareCall(acc, middlewareName, "{}", raising)
       ELSE acc

\* The names in the order a loop over the options' own keys would visit
\* them, the names the options do not mention after them.
KeysFirst(props) ==
  LET Known(p) == p[1] \in MiddlewareName
      Unmentioned(n) == \A i \in 1..Len(props) : props[i][1] # n
      mentioned == SelectSeq(props, Known) IN
  [i \in 1..Len(mentioned) |-> mentioned[i][1]] \o SelectSeq(middlewares, Unmentioned)

RECURSIVE reduceOver(_, _, _, _, _)
reduceOver(names, i, acc, props, raising) ==
  IF i > Len(names) \/ acc.thrown # "none" THEN acc
  ELSE reduceOver(names, i + 1, reduceCallback(acc, names[i], props, raising),
                  props, raising)

\* The reduce run over the options' keys instead of the registration order.
reduceKeysFirst(i, acc, props, raising) ==
  reduceOver(KeysFirst(props), i, acc, props, raising)

\* middlewares.reduce(callback, []); a throw in the callback ends the loop.
RECURSIVE reduceFrom(_, _, _, _)
reduceFrom(i, acc, props, raising) ==
  IF i > Len(middlewares) \/ acc.thrown # "none" THEN acc
  ELSE reduceFrom(i + 1, reduceCallback(acc, middlewares[i], props, raising),
                  props, raising)

\* options has an own property key (a property holding undefined is one).
Has(props, key) == \E i \in 1..Len(props) : props[i][1] = key

\* options.constructor.name, src/index.ts:79.  options.constructor is the own
\* property of that name when there is one, else the constructor the object
\* was made by; reading .name of null or undefined throws a TypeError, and
\* .name of a boolean or of an object without that property is undefined.
constructorName(opts) ==
  IF Has(opts.props, "constructor")
    THEN LET c == Get(opts.props, "constructor") IN
         IF c \in {"null", "undefined"} THEN "TypeError"
         ELSE IF c = "{name:'IncomingMessage'}" THEN "IncomingMessage"
         ELSE "undefined"
    ELSE opts.ctor

\* helmet testing the constructor name after the stack is built instead of
\* before.
constructGuardLast(arg, raising) ==
  LET opts == IF arg.kind = "omitted"
                THEN [kind |-> "object", ctor |-> "Object", props |-> << >>]
                ELSE arg
      built == reduceFrom(1, [result |-> << >>, calls |-> << >>, thrown |-> "none"],
                          opts.props, raising) IN
  IF built.thrown = "none" /\ constructorName(opts) = "TypeError"
    THEN [built EXCEPT !.result = << >>, !.thrown = "TypeError"]
  ELSE IF built.thrown = "none" /\ constructorName(opts) = "IncomingMessage"
    THEN [built EXCEPT !.result = << >>, !.thrown = "misuse"]
    ELSE built

\* The whole of helmet(options) up to the return, src/index.ts:78-106.  The
\* default parameter replaces an omitted argument by {}; the guard on the
\* constructor name throws before the reduce; a factory's throw leaves the
\* reduce and the constructor.
construct(arg, raising) ==
  LET opts == IF arg.kind = "omitted"
                THEN [kind |-> "object", ctor |-> "Object", props |-> << >>]
                ELSE arg IN
  IF constructorName(opts) = "TypeError"
    THEN [result |-> << >>, calls |-> << >>, thrown |-> "TypeError"]
  ELSE IF constructorName(opts) = "IncomingMessage"
    THEN [result |-> << >>, calls |-> << >>, thrown |-> "misuse"]
    ELSE reduceFrom(1, [result |-> << >>, calls |-> << >>, thrown |-> "none"],
                    opts.props, raising)

\* The registry entries wrapped by deprecate.function, src/index.ts:147-158.
deprecatedWithHsts == {"featurePolicy", "hpkp", "noCache", "hsts"}

deprecated == {"featurePolicy", "hpkp", "noCache"}

\* deprecate.function(fn, message) of depd: each call of the wrapper emits
\* the message, unless depd has muted it, and then calls fn with the same
\* arguments.  The diagnostics of the factory calls calls, in order.
RECURSIVE Emissions(_, _)
Emissions(calls, muted) ==
  IF calls = << >> THEN << >>
  ELSE (IF Head(calls)[1] \in deprecated /\ Head(calls)[1] \notin muted
          THEN <<Head(calls)[1]>> ELSE << >>)
       \o Emissions(Tail(calls), muted)

\* -------------------------------------------------------------- inputs
\* Position of a key in the order the known names are registered in, the
\* unknown keys last.
KeyOrder == middlewares \o <<"unknownKey", "constructor">>

KeyPos(k) == indexOf(KeyOrder, k)

\* The object literal with the keys of S, each holding f[key], written in the
\* reverse of the registration order.
RECURSIVE Listed(_, _)
Listed(S, f) ==
  IF S = {} THEN << >>
  ELSE LET k == CHOOSE x \in S : \A y \in S : KeyPos(y) <= KeyPos(x) IN
       <<<<k, f[k]>>>> \o Listed(S \ {k}, f)

\* Key sets of the options objects: at most MaxKeys own properties.  The
\* other insertion orders of the same properties are the permutations of
\* Listed(S, f).
KeySets == {S \in SUBSET Keys : Cardinality(S) <= MaxKeys}

Obj(props) == [kind |-> "object", ctor |-> "Object", props |-> props]

Omitted == [kind |-> "omitted", ctor |-> "none", props |-> << >>]

\* A request object handed to helmet in place of options (app.use(helmet)).
RequestObject == [kind |-> "object", ctor |-> "IncomingMessage", props |-> << >>]

RaisingSets == {{}} \cup {{n} : n \in MiddlewareName}

\* The deprecation messages depd does not emit (already emitted from the same
\* call site, or silenced).
MutedSets == SUBSET deprecated

\* Options of the pipelines that requests are run through: the default stack
\* (7 handlers), an empty stack, and stacks of 1, 2 and 4 handlers; and the
\* arguments helmet throws on at once.
Off(names) == [i \in 1..Len(names) |-> <<names[i], "false">>]

RunArgs ==
  { Omitted,
    RequestObject,
    Obj(Off(DEFAULT_MIDDLEWARE)),
    Obj(<<<<"noCache", "true">>>> \o Off(DEFAULT_MIDDLEWARE)),
    Obj(Off(DEFAULT_MIDDLEWARE)
          \o <<<<"hpkp", "{a:1}">>, <<"contentSecurityPolicy", "true">>>>),
    Obj(<<<<"constructor", "null">>>>),
    Obj(<<<<"hsts", "true">>, <<"constructor", "{name:'IncomingMessage'}">>>>),
    Obj(<<<<"xssFilter", "false">>, <<"featurePolicy", "{a:1}">>,
          <<"noSniff", "false">>, <<"ieNoOpen", "false">>,
          <<"hsts", "false">>, <<"unknownKey", "true">>>>) }

\* Options of the pipelines whose handlers call their continuation
\* repeatedly: the stacks of 0, 1 and 2 handlers.
AnyArgs ==
  { Obj(Off(DEFAULT_MIDDLEWARE)),
    Obj(<<<<"noCache", "true">>>> \o Off(DEFAULT_MIDDLEWARE)),
    Obj(Off(DEFAULT_MIDDLEWARE)
          \o <<<<"hpkp", "{a:1}">>, <<"contentSecurityPolicy", "true">>>>) }

\* Requests sent through the pipeline.
Reqs == 1..NumReqs

\* Argument lists a handler passes to its continuation.
ArgLists ==
  {<< >>, <<"err">>, <<"undefined">>, <<"null">>, <<"err", "info">>}

\* The argument lists of the runs that need no more than the two ways a
\* continuation call can go.
AgainArgs == {<< >>, <<"err">>}

VARIABLES
  pc,            \* "loaded", then "built" (handler returned) or "failed" (threw)
  options,       \* the argument helmet was called with
  stack,         \* the stack closed over by the returned handler
  factoryCalls,  \* the factory calls made, <<name, options, outcome>>, in order
  thrown,        \* the error helmet threw: "none", "misuse", "TypeError" or
                 \* the name of the factory that threw
  warnings,      \* the deprecation diagnostics emitted, by factory name, in order
  directCalls,   \* number of calls helmet.X(...) made outside of helmet(...)
  started,       \* started[r]: the returned handler was called for request r
  index,         \* index[r]: the cursor of request r's closure
  invoked,       \* invoked[r]: stack positions whose handler was called, in order
  conts,         \* conts[r]: <<position, args>> of each continuation call made
  raised,        \* raised[r]: positions whose handler threw
  outer          \* outer[r]: argument lists next was called with, in order

vars == <<pc, options, stack, factoryCalls, thrown, warnings, directCalls,
          started, index, invoked, conts, raised, outer>>

buildVars == <<pc, options, stack, factoryCalls, thrown, warnings, directCalls>>

\* What a request leaves alone besides the stack it reads.
ctorVars == <<pc, options, factoryCalls, thrown, warnings, directCalls>>

reqVars == <<started, index, invoked, conts, raised, outer>>

Init ==
  /\ pc = "loaded"
  /\ options = Omitted
  /\ stack = << >>
  /\ factoryCalls = << >>
  /\ thrown = "none"
  /\ warnings = << >>
  /\ directCalls = 0
  /\ started = [r \in Reqs |-> FALSE]
  /\ index = [r \in Reqs |-> 0]
  /\ invoked = [r \in Reqs |-> << >>]
  /\ conts = [r \in Reqs |-> << >>]
  /\ raised = [r \in Reqs |-> {}]
  /\ outer = [r \in Reqs |-> << >>]

\* A call helmet(arg), src/index.ts:78-133: either the aggregate handler is
\* returned (pc = "built") or the error reaches the caller (pc = "failed").
Construct(arg, raising, muted) ==
  /\ pc = "loaded"
  /\ \E built \in {construct(arg, raising)} :
       /\ options' = arg
       /\ factoryCalls' = factoryCalls \o built.calls
       /\ warnings' = warnings \o Emissions(built.calls, muted)
       /\ thrown' = built.thrown
       /\ stack' = IF built.thrown = "none" THEN built.result ELSE << >>
       /\ pc' = IF built.thrown = "none" THEN "built" ELSE "failed"
  /\ UNCHANGED <<directCalls, reqVars>>

\* The functions helmet.X that are called directly in the enumerated runs,
\* and the argument they are given.
StaticNames == {"noCache", "hsts"}

StaticArgs == {"{a:1}"}

\* A direct call helmet.name(arg), src/index.ts:135-158: the property is the
\* factory itself or, for the deprecated names, its deprecate.function
\* wrapper.  It can be made at any time and touches neither helmet's
\* pipeline nor a request.
Static(name, arg, raising, muted) ==
  /\ directCalls < MaxStatic
  /\ \E done \in {middlewareCall([result |-> << >>, calls |-> << >>, thrown |-> "none"],
                                  name, arg, raising)} :
       /\ factoryCalls' = factoryCalls \o done.calls
       /\ warnings' = warnings \o Emissions(done.calls, muted)
  /\ directCalls' = directCalls + 1
  /\ UNCHANGED <<pc, options, stack, thrown, reqVars>>

\* internalNext without the return after next(...args): the arguments are
\* forwarded and the next handler is called all the same.
internalNextNoReturn(r, cur, args) ==
  IF cur >= Len(stack)
    THEN /\ outer' = [outer EXCEPT ![r] =
                        IF Len(args) > 0 THEN Append(Append(@, args), << >>)
                        ELSE Append(@, << >>)]
         /\ index' = [index EXCEPT ![r] = cur]
         /\ UNCHANGED <<invoked, stack>>
    ELSE /\ outer' = [outer EXCEPT ![r] = IF Len(args) > 0 THEN Append(@, args) ELSE @]
         /\ index' = [index EXCEPT ![r] = cur + 1]
         /\ invoked' = [invoked EXCEPT ![r] = Append(@, cur + 1)]
         /\ UNCHANGED stack

\* internalNext reading the handler before a cursor that was already
\* incremented (index++ ahead of stack[index]): an entry is skipped.
internalNextSkip(r, cur, args) ==
  IF Len(args) > 0
    THEN /\ outer' = [outer EXCEPT ![r] = Append(@, args)]
         /\ index' = [index EXCEPT ![r] = cur]
         /\ UNCHANGED <<invoked, stack>>
  ELSE IF cur + 1 >= Len(stack)
    THEN /\ outer' = [outer EXCEPT ![r] = Append(@, << >>)]
         /\ index' = [index EXCEPT ![r] = cur]
         /\ UNCHANGED <<invoked, stack>>
  ELSE /\ index' = [index EXCEPT ![r] = cur + 1]
       /\ invoked' = [invoked EXCEPT ![r] = Append(@, cur + 2)]
       /\ UNCHANGED <<outer, stack>>

\* internalNext over a cursor declared outside the returned handler: one
\* cursor for all requests.
internalNextShared(r, cur, args) ==
  IF Len(args) > 0
    THEN /\ outer' = [outer EXCEPT ![r] = Append(@, args)]
         /\ index' = [q \in Reqs |-> cur]
         /\ UNCHANGED <<invoked, stack>>
  ELSE IF cur >= Len(stack)
    THEN /\ outer' = [outer EXCEPT ![r] = Append(@, << >>)]
         /\ index' = [q \in Reqs |-> cur]
         /\ UNCHANGED <<invoked, stack>>
  ELSE /\ index' = [q \in Reqs |-> cur + 1]
       /\ invoked' = [invoked EXCEPT ![r] = Append(@, cur + 1)]
       /\ UNCHANGED <<outer, stack>>

\* internalNext that returns at the end of the stack without calling next.
internalNextNoFinish(r, cur, args) ==
  IF Len(args) > 0
    THEN /\ outer' = [outer EXCEPT ![r] = Append(@, args)]
         /\ index' = [index EXCEPT ![r] = cur]
         /\ UNCHANGED <<invoked, stack>>
  ELSE IF cur >= Len(stack)
    THEN /\ index' = [index EXCEPT ![r] = cur]
         /\ UNCHANGED <<invoked, outer, stack>>
  ELSE /\ index' = [index EXCEPT ![r] = cur + 1]
       /\ invoked' = [invoked EXCEPT ![r] = Append(@, cur + 1)]
       /\ UNCHANGED <<outer, stack>>

\* internalNext taking the handlers off the shared stack (stack.shift())
\* instead of indexing it.
internalNextShift(r, cur, args) ==
  IF Len(args) > 0
    THEN /\ outer' = [outer EXCEPT ![r] = Append(@, args)]
         /\ index' = [index EXCEPT ![r] = cur]
         /\ UNCHANGED <<invoked, stack>>
  ELSE IF stack = << >>
    THEN /\ outer' = [outer EXCEPT ![r] = Append(@, << >>)]
         /\ index' = [index EXCEPT ![r] = cur]
         /\ UNCHANGED <<invoked, stack>>
  ELSE /\ index' = [index EXCEPT ![r] = cur + 1]
       /\ invoked' = [invoked EXCEPT ![r] = Append(@, cur + 1)]
       /\ stack' = Tail(stack)
       /\ UNCHANGED outer

\* internalNext calling next() one entry early, when the cursor reaches the
\* last entry.
internalNextEarly(r, cur, args) ==
  IF Len(args) > 0
    THEN /\ outer' = [outer EXCEPT ![r] = Append(@, args)]
         /\ index' = [index EXCEPT ![r] = cur]
         /\ UNCHANGED <<invoked, stack>>
  ELSE IF cur + 1 >= Len(stack)
    THEN /\ outer' = [outer EXCEPT ![r] = Append(@, << >>)]
         /\ index' = [index EXCEPT ![r] = cur]
         /\ UNCHANGED <<invoked, stack>>
  ELSE /\ index' = [index EXCEPT ![r] = cur + 1]
       /\ invoked' = [invoked EXCEPT ![r] = Append(@, cur + 1)]
       /\ UNCHANGED <<outer, stack>>

\* internalNext testing the value of its first argument instead of
\* args.length: an undefined or null first argument proceeds.
internalNextTruthy(r, cur, args) ==
  IF Len(args) > 0 /\ args[1] \notin {"undefined", "null"}
    THEN /\ outer' = [outer EXCEPT ![r] = Append(@, args)]
         /\ index' = [index EXCEPT ![r] = cur]
         /\ UNCHANGED <<invoked, stack>>
  ELSE IF cur >= Len(stack)
    THEN /\ outer' = [outer EXCEPT ![r] = Append(@, << >>)]
         /\ index' = [index EXCEPT ![r] = cur]
         /\ UNCHANGED <<invoked, stack>>
  ELSE /\ index' = [index EXCEPT ![r] = cur + 1]
       /\ invoked' = [invoked EXCEPT ![r] = Append(@, cur + 1)]
       /\ UNCHANGED <<outer, stack>>

\* internalNext incrementing index only after the handler returns: a call of
\* the continuation made meanwhile still finds the old index.
internalNextLate(r, cur, args) ==
  IF Len(args) > 0
    THEN /\ outer' = [outer EXCEPT ![r] = Append(@, args)]
         /\ index' = [index EXCEPT ![r] = cur]
         /\ UNCHANGED <<invoked, stack>>
  ELSE IF cur >= Len(stack)
    THEN /\ outer' = [outer EXCEPT ![r] = Append(@, << >>)]
         /\ index' = [index EXCEPT ![r] = cur]
         /\ UNCHANGED <<invoked, stack>>
  ELSE /\ index' = [index EXCEPT ![r] = cur]
       /\ invoked' = [invoked EXCEPT ![r] = Append(@, cur + 1)]
       /\ UNCHANGED <<outer, stack>>

\* internalNext(...args) of request r, src/index.ts:115-129, entered with the
\* closure's cursor at cur.  stack[cur] is undefined exactly when cur is not
\* below the stack's length; the handler at 0-based cur is position cur + 1.
internalNext(r, cur, args) ==
  IF Len(args) > 0
    THEN /\ outer' = [outer EXCEPT ![r] = Append(@, args)]
         /\ index' = [index EXCEPT ![r] = cur]
         /\ UNCHANGED <<invoked, stack>>
  ELSE IF cur >= Len(stack)
    THEN /\ outer' = [outer EXCEPT ![r] = Append(@, << >>)]
         /\ index' = [index EXCEPT ![r] = cur]
         /\ UNCHANGED <<invoked, stack>>
  ELSE /\ index' = [index EXCEPT ![r] = cur + 1]
       /\ invoked' = [invoked EXCEPT ![r] = Append(@, cur + 1)]
       /\ UNCHANGED <<outer, stack>>

\* The returned handler calling every stack entry at once, without waiting
\* for the continuation of the one before.
RequestAll(r) ==
  /\ pc = "built"
  /\ ~started[r]
  /\ started' = [started EXCEPT ![r] = TRUE]
  /\ index' = [index EXCEPT ![r] = Len(stack)]
  /\ invoked' = [invoked EXCEPT ![r] = [j \in 1..Len(stack) |-> j]]
  /\ outer' = [outer EXCEPT ![r] = IF Len(stack) = 0 THEN <<<< >>>> ELSE @]
  /\ UNCHANGED <<ctorVars, stack, conts, raised>>

\* The returned handler is called for request r, src/index.ts:108-132:
\* let index = 0, then internalNext().
Request(r) ==
  /\ pc = "built"
  /\ ~started[r]
  /\ started' = [started EXCEPT ![r] = TRUE]
  /\ internalNext(r, 0, << >>)
  /\ UNCHANGED <<ctorVars, conts, raised>>

\* Handlers of request r that were called and have not called their
\* continuation; they hold internalNext (src/index.ts:128) and may call it
\* whether they returned or threw.
Running(r) ==
  {k \in Range(invoked[r]) : \A i \in 1..Len(conts[r]) : conts[r][i][1] # k}

\* Handlers of request r that were called and have not thrown.
Unraised(r) == Range(invoked[r]) \ raised[r]

\* Handlers of request r that have neither called their continuation nor
\* thrown.
Active(r) == Running(r) \ raised[r]

\* The handler at position k of request r calls its continuation with args
\* (the continuation of every handler of a request is that request's
\* internalNext, src/index.ts:128).
Continue(r, k, args) ==
  /\ pc = "built"
  /\ k \in Running(r)
  /\ conts' = [conts EXCEPT ![r] = Append(@, <<k, args>>)]
  /\ internalNext(r, index[r], args)
  /\ UNCHANGED <<ctorVars, started, raised>>

\* A throw of handler k caught by the executor and turned into next(err).
RaiseCaught(r, k) ==
  /\ pc = "built"
  /\ k \in Unraised(r)
  /\ raised' = [raised EXCEPT ![r] = @ \cup {k}]
  /\ outer' = [outer EXCEPT ![r] = Append(@, <<"err">>)]
  /\ UNCHANGED <<buildVars, started, index, invoked, conts>>

\* The handler at position k of request r throws, before or after it called
\* its continuation; nothing in src/index.ts:108-132 catches it.
Raise(r, k) ==
  /\ pc = "built"
  /\ k \in Unraised(r)
  /\ raised' = [raised EXCEPT ![r] = @ \cup {k}]
  /\ UNCHANGED <<buildVars, started, index, invoked, conts, outer>>

\* Number of continuation calls of request r beyond the first of each
\* handler.
ExtraCalls(r) ==
  Len(conts[r]) - Cardinality({conts[r][i][1] : i \in 1..Len(conts[r])})

\* The handler at position k of request r, having called its continuation
\* before, calls it once more: it still holds internalNext, which has no
\* record of earlier calls (src/index.ts:115-129).
ContinueAgain(r, k, args) ==
  /\ pc = "built"
  /\ k \in Range(invoked[r])
  /\ \E i \in 1..Len(conts[r]) : conts[r][i][1] = k
  /\ ExtraCalls(r) < MaxExtra
  /\ conts' = [conts EXCEPT ![r] = Append(@, <<k, args>>)]
  /\ internalNext(r, index[r], args)
  /\ UNCHANGED <<ctorVars, started, raised>>

\* Construction over every options object of at most MaxKeys properties.
NextBuild ==
  /\ pc = "loaded"
  /\ \/ \E S \in KeySets : \E f \in [S -> Values] : Construct(Obj(Listed(S, f)), {}, {})
     \/ \E arg \in {Omitted, RequestObject} : Construct(arg, {}, {})

SpecBuild == Init /\ [][NextBuild]_vars

\* Option values that are neither booleans nor objects: null, the number 0,
\* the empty string and a non-empty string.
ShapeValues == {"null", "0", "''", "'x'"}

\* Construction alone, over options whose values are of these other shapes.
NextShapes ==
  /\ pc = "loaded"
  /\ \E S \in KeySets : \E f \in [S -> ShapeValues] : Construct(Obj(Listed(S, f)), {}, {})

SpecShapes == Init /\ [][NextShapes]_vars

\* Construction, then requests whose handlers call their continuation at
\* most once, or throw and do nothing more.
Next ==
  \/ /\ pc = "loaded"
     /\ \E arg \in RunArgs, raising \in RaisingSets, muted \in MutedSets :
          Construct(arg, raising, muted)
  \/ \E r \in Reqs : Request(r)
  \/ \E r \in Reqs : \E k \in Active(r), args \in ArgLists : Continue(r, k, args)
  \/ \E r \in Reqs : \E k \in Active(r) : Raise(r, k)

Spec == Init /\ [][Next]_vars

\* Construction, then requests of which the first has handlers that may call
\* their continuation more than once, while the handlers of the others call
\* it at most once.
NextAny ==
  \/ /\ pc = "loaded"
     /\ \E arg \in AnyArgs, raising \in RaisingSets, muted \in MutedSets :
          Construct(arg, raising, muted)
  \/ \E r \in Reqs : Request(r)
  \/ \E r \in Reqs : \E k \in Active(r), args \in ArgLists : Continue(r, k, args)
  \/ \E r \in Reqs : \E k \in Active(r) : Raise(r, k)
  \/ \E k \in Range(invoked[1]), args \in AgainArgs : ContinueAgain(1, k, args)

SpecAny == Init /\ [][NextAny]_vars

\* Construction, then requests whose handlers call their continuation at
\* most once and throw at most once, in either order: a handler that threw
\* may still call its continuation, and one that called it may still throw.
NextThrow ==
  \/ /\ pc = "loaded"
     /\ \E arg \in AnyArgs, raising \in RaisingSets, muted \in MutedSets :
          Construct(arg, raising, muted)
  \/ \E r \in Reqs : Request(r)
  \/ \E r \in Reqs : \E k \in Running(r), args \in ArgLists : Continue(r, k, args)
  \/ \E r \in Reqs : \E k \in Unraised(r) : Raise(r, k)

SpecThrow == Init /\ [][NextThrow]_vars

\* Options of the pipelines built in the runs with direct calls: the default
\* configuration, and the stacks of 0, 1 and 2 handlers.
StaticRunArgs == AnyArgs \cup {Omitted}

\* Construction and requests, with direct calls of helmet.X before, between
\* and after them.
NextStatic ==
  \/ /\ pc = "loaded"
     /\ \E arg \in StaticRunArgs, raising \in RaisingSets, muted \in MutedSets :
          Construct(arg, raising, muted)
  \/ \E name \in StaticNames, arg \in StaticArgs :
       \E raising \in {{}, {name}}, muted \in {{}, {name} \cap deprecated} :
         Static(name, arg, raising, muted)
  \/ \E r \in Reqs : Request(r)
  \/ \E r \in Reqs : \E k \in Active(r), args \in AgainArgs : Continue(r, k, args)

SpecStatic == Init /\ [][NextStatic]_vars

\* Requests whose handlers all call their continuation with no arguments,
\* each eventually.
NextLive ==
  \/ /\ pc = "loaded"
     /\ \E arg \in RunArgs, raising \in RaisingSets, muted \in MutedSets :
          Construct(arg, raising, muted)
  \/ \E r \in Reqs : Request(r)
  \/ \E r \in Reqs : \E k \in Running(r) : Continue(r, k, << >>)

SpecLive ==
  /\ Init
  /\ [][NextLive]_vars
  /\ \A r \in Reqs : \A k \in 1..Len(middlewares) : WF_vars(Continue(r, k, << >>))

\* ------------------------------------------------------------- properties
\* The value the options give for key X, whatever the order of their keys:
\* undefined when the key is absent.
ValueIn(props, X) ==
  IF \E i \in 1..Len(props) : props[i][1] = X
    THEN props[CHOOSE i \in 1..Len(props) : props[i][1] = X][2]
    ELSE "undefined"

ValueOf(X) == ValueIn(options.props, X)

\* The 7 names enabled by default, in registration order.
DefaultSetInOrder ==
  << "dnsPrefetchControl", "frameguard", "hidePoweredBy", "hsts", "ieNoOpen",
     "noSniff", "xssFilter" >>

DefaultSet == Range(DefaultSetInOrder)

\* The resolver's rule of inclusion.
IncludedIn(props, X) ==
  LET v == ValueIn(props, X) IN
  IF v = "false" THEN FALSE
  ELSE IF v \in {"undefined", "null"} THEN X \in DefaultSet
  ELSE TRUE

Included(X) == IncludedIn(options.props, X)

StackNames == {stack[i].name : i \in 1..Len(stack)}

\* Number of calls of X's factory.
CallsOf(X) == Cardinality({i \in 1..Len(factoryCalls) : factoryCalls[i][1] = X})

\* X's factory was called once, with cfg, and the handler it returned is in
\* the stack.
BuiltWith(X, cfg) ==
  /\ \E i \in 1..Len(stack) : stack[i] = [name |-> X, options |-> cfg]
  /\ \E i \in 1..Len(factoryCalls) : factoryCalls[i] = <<X, cfg, "returned">>
  /\ CallsOf(X) = 1

\* The permutations of 1..n, for the sizes of the options objects.
IndexPerms ==
  [n \in 0..MaxKeys |->
     {f \in [1..n -> 1..n] : \A a, b \in 1..n : a # b => f[a] # f[b]}]

\* The orders the properties props can be written in.
Perms(props) == {[i \in 1..Len(props) |-> props[q[i]]] : q \in IndexPerms[Len(props)]}

\* props without the unknown keys, and without the keys holding undefined.
KnownOnly(props) == LET Known(p) == p[1] \in MiddlewareName IN SelectSeq(props, Known)

DefinedOnly(props) == LET Defined(p) == p[2] # "undefined" IN SelectSeq(props, Defined)

\* C4: for every configuration, the stack is the subsequence of the
\* registration order made of the included names, each once; it is the same
\* for every order of the options' keys, without the unknown keys, and
\* without the keys left undefined: a configuration gives a stack whenever
\* the same configuration without its unknown keys does.
C4_StackOrder ==
  /\ pc = "built" =>
       /\ StackNames = {X \in MiddlewareName : Included(X)}
       /\ \A i \in 1..(Len(stack) - 1) :
            indexOf(middlewares, stack[i].name) < indexOf(middlewares, stack[i + 1].name)
       /\ \A q \in Perms(options.props) \cup
                   {KnownOnly(options.props), DefinedOnly(options.props)} :
            q # options.props => construct(Obj(q), {}).result = stack
  /\ (pc = "failed" /\ options.ctor = "Object") =>
       construct(Obj(KnownOnly(options.props)), {}).thrown # "none"

\* C5: a name whose value is false is not in the stack and its factory is
\* not called, default or not, whatever the other keys hold.
C5_ExplicitDisable ==
  \A X \in MiddlewareName :
    ValueOf(X) = "false" => (X \notin StackNames /\ CallsOf(X) = 0)

\* A default name and a non-default name are both switched off.
C5_Witness ==
  /\ pc = "built"
  /\ ValueOf("hsts") = "false"
  /\ ValueOf("noCache") = "false"
  /\ Len(stack) = 6

\* C6: a name whose value is omitted (key absent or undefined) is included,
\* with the empty configuration, iff it is one of the 7 default names; with
\* no options the stack is the 7 default handlers in registration order.
C6_Defaults ==
  pc = "built" =>
    /\ \A X \in MiddlewareName :
         ValueOf(X) = "undefined" =>
           IF X \in DefaultSet THEN BuiltWith(X, "{}")
           ELSE X \notin StackNames /\ CallsOf(X) = 0
    /\ options.props = << >> =>
         stack = [i \in 1..7 |-> [name |-> DefaultSetInOrder[i], options |-> "{}"]]

\* A default and a non-default name are both given as undefined, the other
\* keys being absent: the stack is the 7 defaults.
C6_Witness ==
  /\ pc = "built"
  /\ options.props = << <<"hsts", "undefined">>, <<"expectCt", "undefined">> >>
  /\ Len(stack) = 7

\* C7: the value true includes the name with the empty object as its
\* configuration; an object value includes it with that very object.
C7_EffectiveConfig ==
  pc = "built" =>
    \A X \in MiddlewareName :
      /\ ValueOf(X) = "true" => BuiltWith(X, "{}")
      /\ ValueOf(X) \in {"{a:1}", "{name:'IncomingMessage'}"} => BuiltWith(X, ValueOf(X))

\* A non-default name is given an object and another one true.
C7_Witness ==
  /\ pc = "built"
  /\ ValueOf("noCache") = "{a:1}"
  /\ ValueOf("expectCt") = "true"
  /\ Len(stack) = 9

\* The per-request state of request r.
ReqState(r) == <<started[r], index[r], invoked[r], conts[r], raised[r], outer[r]>>

ReqStateNext(r) ==
  <<started'[r], index'[r], invoked'[r], conts'[r], raised'[r], outer'[r]>>

\* The factory calls and the diagnostics a step adds.
NewCalls == SubSeq(factoryCalls', Len(factoryCalls) + 1, Len(factoryCalls'))

NewWarnings == SubSeq(warnings', Len(warnings) + 1, Len(warnings'))

CountIn(seq, X) == Cardinality({i \in 1..Len(seq) : seq[i][1] = X})

\* A step of helmet(options), and a step of some request.
ConstructStep == pc = "loaded" /\ pc' # "loaded"

RequestStep == \E r \in Reqs : ReqStateNext(r) # ReqState(r)

\* C9: a construction that returns has called the factory of each included
\* name once and of no other name; a construction that throws has called no
\* factory twice and none of an excluded name; a step of a request calls no
\* factory.
C9_FactoriesAtConstruction ==
  [][/\ SubSeq(factoryCalls', 1, Len(factoryCalls)) = factoryCalls
     /\ ConstructStep =>
          \A X \in MiddlewareName :
            /\ CountIn(NewCalls, X) <= 1
            /\ ~IncludedIn(options'.props, X) => CountIn(NewCalls, X) = 0
            /\ pc' = "built" =>
                 CountIn(NewCalls, X) = (IF IncludedIn(options'.props, X) THEN 1 ELSE 0)
     /\ RequestStep => factoryCalls' = factoryCalls]_vars

\* Every request has completed a 2-entry stack and the factories were
\* called twice in all.
C9_Witness ==
  /\ pc = "built"
  /\ Len(stack) = 2
  /\ Len(factoryCalls) = 2
  /\ directCalls = 0
  /\ \A r \in Reqs : outer[r] = << << >> >>

\* C10: when a factory throws during construction the error reaches the
\* caller of helmet, no handler is returned, and no request ever runs.
C10_AtomicFailure ==
  /\ (\E i \in 1..Len(factoryCalls) : factoryCalls[i][3] = "threw") =>
       /\ pc = "failed"
       /\ thrown = factoryCalls[Len(factoryCalls)][1]
       /\ factoryCalls[Len(factoryCalls)][3] = "threw"
  /\ pc # "built" =>
       /\ stack = << >>
       /\ \A r \in Reqs : ~started[r] /\ invoked[r] = << >> /\ outer[r] = << >>

\* The fourth factory of the default configuration threw after three had
\* returned a handler.
C10_Witness ==
  /\ pc = "failed"
  /\ thrown = "hsts"
  /\ Len(factoryCalls) = 4
  /\ factoryCalls[3][3] = "returned"

\* The handler positions of request r that called their continuation with
\* args.
Called(r, k, args) == \E i \in 1..Len(conts[r]) : conts[r][i] = <<k, args>>

\* The sequence <<1, ..., n>>.
UpTo(n) == [j \in 1..n |-> j]

\* C1: when the handler at position k of a request calls its continuation
\* with one or more arguments, no handler at a later position is ever called
\* for that request and next is called once, with exactly those arguments.
C1_ShortCircuit ==
  \A r \in Reqs : \A i \in 1..Len(conts[r]) :
    LET k == conts[r][i][1]
        args == conts[r][i][2] IN
    Len(args) > 0 =>
      /\ \A j \in 1..Len(invoked[r]) : invoked[r][j] <= k
      /\ outer[r] = <<args>>

\* A handler before the end of a 7-entry stack has passed two arguments and
\* next has received them.
C1_Witness ==
  \E r \in Reqs :
    /\ Len(stack) = 7
    /\ Called(r, 3, <<"err", "info">>)
    /\ outer[r] = << <<"err", "info">> >>

\* C2: the handlers of one request are called in stack order, entry i+1 only
\* once entry i has called its continuation with no arguments, and at most
\* one handler of the request is running at any time.
C2_Ordering ==
  \A r \in Reqs :
    /\ invoked[r] = UpTo(Len(invoked[r]))
    /\ Len(invoked[r]) <= Len(stack)
    /\ \A j \in 2..Len(invoked[r]) : Called(r, j - 1, << >>)
    /\ Cardinality(Running(r)) <= 1

\* A request is at its fifth handler, the four before it having continued.
C2_Witness ==
  \E r \in Reqs :
    /\ invoked[r] = <<1, 2, 3, 4, 5>>
    /\ Running(r) = {5}

\* A step changes the state of at most one request, and the call of the
\* returned handler starts from cursor 0: it calls the first stack entry, or
\* next at once when the stack is empty.
StepIsolated ==
  /\ Cardinality({r \in Reqs : ReqStateNext(r) # ReqState(r)}) <= 1
  /\ \A r \in Reqs :
       (~started[r] /\ started'[r]) =>
         /\ index[r] = 0
         /\ invoked'[r] = IF Len(stack) > 0 THEN <<1>> ELSE << >>
         /\ index'[r] = Len(invoked'[r])

\* Each request has called the entries 1..cursor, each once and in order;
\* next is called at most once, and after a call with no arguments every
\* stack entry has been called.
RequestsIndependent ==
  \A r \in Reqs :
    /\ invoked[r] = UpTo(index[r])
    /\ index[r] <= Len(stack)
    /\ Len(outer[r]) <= 1
    /\ ~started[r] => (index[r] = 0 /\ outer[r] = << >>)
    /\ outer[r] = << << >> >> => invoked[r] = UpTo(Len(stack))

\* C3: requests interleaved through one pipeline have a cursor each, starting
\* at 0; a step of one request changes no other request's cursor; a request
\* calls the stack entries in order, each once, and next once.
C3_Isolation == [][StepIsolated]_vars /\ []RequestsIndependent

\* One request has completed the 7-entry stack while another is suspended in
\* its third handler.
C3_Witness ==
  \E r, q \in Reqs :
    /\ r # q
    /\ Len(stack) = 7
    /\ outer[r] = << << >> >>
    /\ index[q] = 3
    /\ Running(q) = {3}

\* Request r has completed normally: every entry called, next called once
\* with no arguments.
Completed(r) ==
  /\ outer[r] = << << >> >>
  /\ invoked[r] = UpTo(Len(stack))
  /\ Running(r) = {}

\* C8: when every handler eventually calls its continuation with no
\* arguments, every request that was started eventually has next called with
\* no arguments, and only after all stack entries have run.
C8_NormalCompletion ==
  /\ \A r \in Reqs : started[r] ~> Completed(r)
  /\ [](\A r \in Reqs : outer[r] # << >> => Completed(r))

\* Both requests have completed the 7-entry stack.
C8_Witness ==
  /\ Len(stack) = 7
  /\ \A r \in Reqs : Completed(r)

\* C11: called with a request object in place of options, helmet throws the
\* descriptive error before any factory is called, returns no handler, and
\* no handler or continuation runs; nothing else throws it, and the returned
\* handler makes no such test when a request runs.
C11_MisuseGuard ==
  /\ [](options.ctor = "IncomingMessage" =>
          /\ pc = "failed"
          /\ thrown = "misuse"
          /\ factoryCalls = << >>
          /\ stack = << >>
          /\ \A r \in Reqs : ~started[r] /\ invoked[r] = << >> /\ outer[r] = << >>)
  /\ [](thrown = "misuse" => constructorName(options) = "IncomingMessage")
  /\ [][pc = "built" => (pc' = "built" /\ thrown' = "none")]_vars

\* helmet was handed a request object and threw the misuse error.
C11_Witness ==
  /\ options = RequestObject
  /\ pc = "failed"
  /\ thrown = "misuse"

\* The names whose factory is wrapped.
Wrapped == {"featurePolicy", "hpkp", "noCache"}

C14_StackReadOnly ==
  [][pc = "built" =>
       /\ stack' = stack
       /\ RequestStep =>
            <<pc', options', factoryCalls', thrown', warnings'>>
              = <<pc, options, factoryCalls, thrown, warnings>>]_vars

\* One request has completed the 4-entry stack, the other has been aborted
\* in its second handler.
C14_Witness ==
  \E r, q \in Reqs :
    /\ Len(stack) = 4
    /\ outer[r] = << << >> >>
    /\ index[q] = 2
    /\ outer[q] = << <<"err">> >>

\* While the handler at position k of request r is silent, no later handler
\* of r has been called and next has not been called for r.
HungAt(r, k) ==
  /\ \A j \in 1..Len(invoked[r]) : invoked[r][j] <= k
  /\ outer[r] = << >>

\* C13 as stated: while a handler has not called its continuation, no later
\* handler of its request is called and next is not called, whatever the
\* other handlers of the request do.
C13_Original == \A r \in Reqs : \A k \in Running(r) : HungAt(r, k)

\* C13, amended: provided no handler of the request calls its continuation
\* more than once, while the handler at position k has not called its
\* continuation no later handler of the request is called and next is not
\* called for it; a step of another request changes nothing of the request.
C13_Hang ==
  /\ [](\A r \in Reqs : ExtraCalls(r) = 0 => \A k \in Running(r) : HungAt(r, k))
  /\ [][Cardinality({r \in Reqs : ReqStateNext(r) # ReqState(r)}) <= 1]_vars

\* The first handler of a 2-entry stack is silent for one request while
\* another request has completed.
C13_Witness ==
  \E r, q \in Reqs :
    /\ r # q
    /\ Len(stack) = 2
    /\ Running(r) = {1}
    /\ conts[r] = << >>
    /\ Completed(q)

\* Request r has been short-circuited: next has been called with arguments.
Aborted(r) == \E i \in 1..Len(outer[r]) : Len(outer[r][i]) > 0

AbortedNext(r) == \E i \in 1..Len(outer'[r]) : Len(outer'[r][i]) > 0

\* A continuation of request r is called with args in this step.
CallStep(r, args) == \E k \in 1..Len(stack) : conts'[r] = Append(conts[r], <<k, args>>)

\* C15 as stated: once next has been called with arguments for a request, no
\* stack entry is invoked for that request any more, whatever its handlers
\* do later.
C15_Original == [][\A r \in Reqs : Aborted(r) => invoked'[r] = invoked[r]]_vars

\* C15, amended: the call that short-circuits invokes no stack entry, and
\* after it a stack entry is invoked for the request only by a further call
\* of a continuation with no arguments, which invokes the entry at the
\* cursor.
C15_ShortCircuitFinal ==
  [][\A r \in Reqs :
       AbortedNext(r) /\ invoked'[r] # invoked[r] =>
         /\ Aborted(r)
         /\ CallStep(r, << >>)
         /\ index[r] < Len(stack)
         /\ invoked'[r] = Append(invoked[r], index[r] + 1)]_vars

\* Handler 1 of a 2-entry stack short-circuits and then calls its
\* continuation with no arguments, which invokes handler 2.
C15_Witness ==
  /\ Len(stack) = 2
  /\ conts[1] = <<<<1, <<"err">>>>, <<1, << >>>>>>
  /\ invoked[1] = <<1, 2>>
  /\ outer[1] = <<<<"err">>>>

\* C16: next is called with no arguments only in a step that finds the
\* cursor of the request at the stack length with every entry invoked; with
\* an empty stack a started request has called next() and no handler.
C16_CompletionAtEnd ==
  /\ [][\A r \in Reqs :
          outer'[r] = Append(outer[r], << >>) =>
            /\ index[r] = Len(stack)
            /\ invoked'[r] = UpTo(Len(stack))]_vars
  /\ [](\A r \in Reqs :
          started[r] /\ Len(stack) = 0 => invoked[r] = << >> /\ outer[r] = <<<< >>>>)

\* Both handlers of a 2-entry stack called their continuation with no
\* arguments for a request, and next() was called for it.
C16_Witness ==
  /\ Len(stack) = 2
  /\ conts[1] = <<<<1, << >>>>, <<2, << >>>>>>
  /\ invoked[1] = <<1, 2>>
  /\ outer[1] = <<<< >>>>

\* C17: a continuation call with a non-empty argument list, whatever the
\* values, calls next with exactly these arguments and invokes no entry.
C17_ArgumentCount ==
  [][\A r \in Reqs : \A args \in ArgLists \ {<< >>} :
       CallStep(r, args) =>
         /\ outer'[r] = Append(outer[r], args)
         /\ invoked'[r] = invoked[r]
         /\ index'[r] = index[r]]_vars

\* Handler 1 of a 2-entry stack calls its continuation with the single
\* argument undefined.
C17_Witness ==
  /\ Len(stack) = 2
  /\ conts[1] = <<<<1, <<"undefined">>>>>>
  /\ outer[1] = <<<<"undefined">>>>
  /\ invoked[1] = <<1>>

\* C18: the cursor of a request stays in 0..Len(stack), changes only by +1,
\* and does so exactly in the step that invokes the entry it selected; the
\* entries invoked are 1..cursor, each once, however often continuations
\* are called.
C18_Cursor ==
  /\ [](\A r \in Reqs : index[r] \in 0..Len(stack) /\ invoked[r] = UpTo(index[r]))
  /\ [][\A r \in Reqs :
          /\ index'[r] \in {index[r], index[r] + 1}
          /\ index'[r] = index[r] + 1 <=>
               invoked'[r] = Append(invoked[r], index[r] + 1)]_vars

\* Handler 1 of a 2-entry stack calls its continuation twice: the second
\* call finds the cursor at the end.
C18_Witness ==
  /\ Len(stack) = 2
  /\ conts[1] = <<<<1, << >>>>, <<1, << >>>>>>
  /\ index[1] = 2
  /\ invoked[1] = <<1, 2>>
  /\ outer[1] = <<<< >>>>

\* C20: a step in which a handler throws calls no continuation, does not
\* call next and invokes no entry; a request whose last invoked handler
\* threw has had next not called and no later entry invoked.
C20_RaiseNotCaught ==
  /\ [][\A r \in Reqs :
          raised'[r] # raised[r] =>
            /\ outer'[r] = outer[r]
            /\ conts'[r] = conts[r]
            /\ invoked'[r] = invoked[r]
            /\ index'[r] = index[r]]_vars
  /\ [](\A r \in Reqs : \A k \in raised[r] :
          (\A i \in 1..Len(conts[r]) : conts[r][i][1] # k) => HungAt(r, k))

\* Handler 1 of a 2-entry stack threw for one request and nothing more
\* happened in it, while in another request handler 1 threw after it had
\* called its continuation.
C20_Witness ==
  \E r, q \in Reqs :
    /\ Len(stack) = 2
    /\ raised[r] = {1}
    /\ invoked[r] = <<1>>
    /\ outer[r] = << >>
    /\ raised[q] = {1}
    /\ conts[q] = <<<<1, << >>>>>>
    /\ invoked[q] = <<1, 2>>

\* The values of ShapeValues that JavaScript takes for false in a condition.
Falsy == {"null", "0", "''"}

\* X is treated as if the options did not mention it.
AsOmitted(X) ==
  IF X \in DefaultSet THEN BuiltWith(X, "{}")
  ELSE CallsOf(X) = 0 /\ X \notin StackNames

\* C19 as stated: a value that is neither a boolean nor an object is
\* forwarded to the factory when truthy and treated as omitted when falsy
\* (null, 0, the empty string).
C19_Original ==
  pc = "built" =>
    \A X \in MiddlewareName :
      LET v == ValueOf(X) IN
      v \in ShapeValues =>
        IF v \in Falsy THEN AsOmitted(X) ELSE BuiltWith(X, v)

\* C19, amended: a value that is neither a boolean nor an object is treated
\* as omitted only when it is null; any other such value, 0 and the empty
\* string included, includes the handler and is forwarded to the factory.
C19_OtherShapes ==
  pc = "built" =>
    \A X \in MiddlewareName :
      LET v == ValueOf(X) IN
      v \in ShapeValues =>
        IF v = "null" THEN AsOmitted(X) ELSE BuiltWith(X, v)

\* A non-default name set to 0 and a default name set to the empty string
\* are both built with that value.
C19_Witness ==
  /\ pc = "built"
  /\ ValueOf("hpkp") = "0"
  /\ BuiltWith("hpkp", "0")
  /\ ValueOf("frameguard") = "''"
  /\ BuiltWith("frameguard", "''")
====
